---- MODULE Spec2Model ----
(***************************************************************************)
(* State-machine model of the quantum-circuit simulation core of           *)
(* bloch-verse (src/unnamed/part_000, the later revision of                *)
(* src/src/utils/quantumSimulation.ts).                                    *)
(*                                                                         *)
(* Numbers.  The code computes with JavaScript numbers.  Every value the   *)
(* modelled gates produce lies in the field Q(sqrt 2), so a number is the  *)
(* record [a, b, d] standing for (a + b*sqrt(2)) / d, kept in lowest terms *)
(* with d > 0; d = 0 is NaN.  Arithmetic is exact: the rounding of IEEE    *)
(* doubles (1/Math.sqrt(2) squared is 0.4999999999999999, not 0.5) is      *)
(* outside the model, and equalities between numbers are to be read up to  *)
(* that rounding.  Reading a missing array element gives JavaScript's      *)
(* undefined, which every arithmetic use turns into NaN.                   *)
(***************************************************************************)
EXTENDS Integers, Sequences, FiniteSets, TLC

\* circuit        the argument of the current simulateCircuit call
\* pc             where the call stands: "call", "gates", "reduce", "returned", "thrown"
\* state          the local composite state
\* gi             how many gates of circuit.gates the first loop has consumed
\* qi             the second loop's index i
\* reducedStates  the local result list
\* run            the number of the current call
\* seen           for every circuit of a finished call, its first outcome
\* kernel         a direct call of one exported function: its name, its
\*                arguments and, once it has run, what it gave
\* builder        the CircuitBuilder component: its props and state, and the
\*                circuits it has passed to onCircuitChange
VARIABLES circuit, pc, state, gi, qi, reducedStates, run, seen, kernel, builder, workspace

vars == <<circuit, pc, state, gi, qi, reducedStates, run, seen, kernel, builder, workspace>>

(***************************************************************************)
(* JavaScript numbers                                                      *)
(***************************************************************************)
NaN == [a |-> 0, b |-> 0, d |-> 0]

IsNaN(x) == x.d = 0

Abs(k) == IF k < 0 THEN -k ELSE k

RECURSIVE GCD(_, _)
GCD(m, n) == IF n = 0 THEN m ELSE GCD(n, m % n)

\* (a + b*sqrt 2)/d in lowest terms; d > 0
Norm(a, b, d) ==
    LET g == GCD(GCD(Abs(a), Abs(b)), d)
    IN  [a |-> a \div g, b |-> b \div g, d |-> d \div g]

Num(k) == [a |-> k, b |-> 0, d |-> 1]

Zero == Num(0)

One == Num(1)

Frac(p, q) == Norm(p, 0, q)

\* mutant: 1/2 in place of 1/Math.sqrt(2)
InvSqrt2Half == Frac(1, 2)

\* 1/Math.sqrt(2) = sqrt(2)/2
InvSqrt2 == [a |-> 0, b |-> 1, d |-> 2]

NumNeg(x) == [a |-> -x.a, b |-> -x.b, d |-> x.d]

\* x + y, over the least common denominator
NumAdd(x, y) ==
    IF IsNaN(x) \/ IsNaN(y) THEN NaN
    ELSE IF x.a = 0 /\ x.b = 0 THEN y
    ELSE IF y.a = 0 /\ y.b = 0 THEN x
    ELSE LET g == GCD(x.d, y.d)
             mx == y.d \div g
             my == x.d \div g
         IN  Norm(x.a * mx + y.a * my, x.b * mx + y.b * my, x.d * mx)

\* x * y
NumMul(x, y) ==
    IF IsNaN(x) \/ IsNaN(y) THEN NaN
    ELSE IF (x.a = 0 /\ x.b = 0) \/ (y.a = 0 /\ y.b = 0) THEN [a |-> 0, b |-> 0, d |-> 1]
    ELSE Norm(x.a * y.a + 2 * x.b * y.b, x.a * y.b + x.b * y.a, x.d * y.d)

\* the sign (-1, 0, 1) of a + b*sqrt 2
SurdSign(a, b) ==
    IF a >= 0 /\ b >= 0 THEN (IF a = 0 /\ b = 0 THEN 0 ELSE 1)
    ELSE IF a <= 0 /\ b <= 0 THEN -1
    ELSE IF a > 0 THEN (IF a * a > 2 * b * b THEN 1 ELSE -1)
    ELSE (IF 2 * b * b > a * a THEN 1 ELSE -1)

\* x < y (false when either is NaN, as in JavaScript)
NumLess(x, y) ==
    /\ ~IsNaN(x)
    /\ ~IsNaN(y)
    /\ SurdSign(x.a * y.d - y.a * x.d, x.b * y.d - y.b * x.d) < 0

\* Math.sqrt(x), kept exact as the radicand: [sqrtOf |-> x] is the
\* non-negative root of x; NaN for NaN and for negative x
MathSqrt(x) ==
    IF IsNaN(x) \/ NumLess(x, Zero) THEN [sqrtOf |-> NaN] ELSE [sqrtOf |-> x]

\* mutant: the root is not clamped
MathMin1NoClamp(s) == s

\* Math.min(s, 1) for a root s: sqrt(x) > 1 iff x > 1; NaN stays NaN
MathMin1(s) ==
    IF IsNaN(s.sqrtOf) THEN s
    ELSE IF NumLess(One, s.sqrtOf) THEN [sqrtOf |-> One]
    ELSE s

\* x || 0
OrZero(x) == IF IsNaN(x) \/ x = Zero THEN Zero ELSE x

\* 2^k, k >= 0
RECURSIVE Pow2(_)
Pow2(k) == IF k <= 0 THEN 1 ELSE 2 * Pow2(k - 1)

(***************************************************************************)
(* Matrices: number[][] as a sequence of rows, element (i, j) of the code  *)
(* (0-based) at M[i + 1][j + 1].                                           *)
(***************************************************************************)
\* the sequence s itself, in the explicit form <<s[1], ..., s[Len(s)]>>, so that
\* its elements are computed once and not again at every read
Eager(s) == s \o <<>>

\* M[i][j] read for arithmetic: undefined (so NaN once used) when j is
\* outside row i
Elem(M, i, j) == IF j + 1 \in DOMAIN M[i + 1] THEN M[i + 1][j + 1] ELSE NaN

IntMatrix(M) == Eager([i \in DOMAIN M |-> Eager([j \in DOMAIN M[i] |-> Num(M[i][j])])])

RECURSIVE DotFrom(_, _, _, _, _, _)
\* the k-loop of matrixMultiply: acc += A[i][k] * B[k][j] for k = k0 .. B.length - 1
DotFrom(A, B, i, j, k, acc) ==
    IF k >= Len(B) THEN acc
    ELSE DotFrom(A, B, i, j, k + 1, NumAdd(acc, NumMul(Elem(A, i, k), Elem(B, k, j))))

matrixMultiply(A, B) ==
    Eager([i \in 1..Len(A) |-> Eager([j \in 1..Len(B[1]) |-> DotFrom(A, B, i - 1, j - 1, 0, Zero)])])

(***************************************************************************)
(* JavaScript values that reach the places where the code expects a        *)
(* matrix: an array of rows, undefined, or a function object (what a       *)
(* property lookup on an object literal finds for the names it inherits    *)
(* from Object.prototype).                                                 *)
(***************************************************************************)
Arr(M) == [tag |-> "array", rows |-> M]

Undefined == [tag |-> "undefined", rows |-> <<>>]

FunctionObject == [tag |-> "function", rows |-> <<>>]

\* !v
Falsy(v) == v.tag = "undefined"

\* !v.length || !v[0] for a truthy v: an empty array has length 0; a function
\* has no element 0; a row that is an empty array is truthy
NoFirstRow(v) == IF v.tag = "array" THEN Len(v.rows) = 0 ELSE TRUE

PAULI ==
    [I |-> IntMatrix(<< <<1, 0>>, <<0, 1>> >>),
     X |-> IntMatrix(<< <<0, 1>>, <<1, 0>> >>),
     Y |-> IntMatrix(<< <<0, -1>>, <<1, 0>> >>),
     Z |-> IntMatrix(<< <<1, 0>>, <<0, -1>> >>)]

\* 0.707
C707 == Frac(707, 1000)

GATES ==
    [I |-> PAULI.I,
     X |-> PAULI.X,
     Y |-> PAULI.Y,
     Z |-> PAULI.Z,
     H |-> << <<InvSqrt2, InvSqrt2>>, <<InvSqrt2, NumNeg(InvSqrt2)>> >>,
     S |-> IntMatrix(<< <<1, 0>>, <<0, 1>> >>),
     T |-> << <<One, Zero>>, <<Zero, NumAdd(C707, C707)>> >>,
     RX |-> << <<C707, NumNeg(C707)>>, <<NumNeg(C707), C707>> >>,
     RY |-> << <<C707, NumNeg(C707)>>, <<C707, C707>> >>,
     RZ |-> << <<C707, Zero>>, <<Zero, C707>> >>,
     CNOT |-> IntMatrix(<< <<1, 0, 0, 0>>, <<0, 1, 0, 0>>, <<0, 0, 0, 1>>, <<0, 0, 1, 0>> >>),
     CZ |-> IntMatrix(<< <<1, 0, 0, 0>>, <<0, 1, 0, 0>>, <<0, 0, 1, 0>>, <<0, 0, 0, -1>> >>),
     SWAP |-> IntMatrix(<< <<1, 0, 0, 0>>, <<0, 0, 1, 0>>, <<0, 1, 0, 0>>, <<0, 0, 0, 1>> >>)]

\* Object.keys(GATES)
AVAILABLE_GATES == DOMAIN GATES

\* names every object literal inherits from Object.prototype; each is a function
ObjectPrototypeNames == {"constructor", "toString", "valueOf", "hasOwnProperty"}

\* GATES[name]: the catalog entry, an inherited member, or undefined
GatesLookup(name) ==
    IF name \in AVAILABLE_GATES THEN Arr(GATES[name])
    ELSE IF name \in ObjectPrototypeNames THEN FunctionObject
    ELSE Undefined

\* a gate of the input: matrix is read only when hasMatrix
Gate(name, qubits) == [name |-> name, hasMatrix |-> FALSE, matrix |-> <<>>, qubits |-> qubits]

GateM(name, matrix, qubits) == [name |-> name, hasMatrix |-> TRUE, matrix |-> matrix, qubits |-> qubits]

(***************************************************************************)
(* Linear-algebra kernel                                                   *)
(***************************************************************************)
\* the guard of tensorProduct
TensorOperandsInvalid(A, B) ==
    Falsy(A) \/ NoFirstRow(A) \/ Falsy(B) \/ NoFirstRow(B)

\* mutant: the operands taken in the other order
tensorProductSwapped(A, B) ==
    IF TensorOperandsInvalid(A, B) THEN << <<One>> >>
    ELSE LET m == Len(B.rows)
             n == Len(B.rows[1])
             p == Len(A.rows)
             q == Len(A.rows[1])
         IN  Eager([r \in 1..(m * p) |-> Eager([c \in 1..(n * q) |->
                 NumMul(Elem(B.rows, (r - 1) \div p, (c - 1) \div q),
                        Elem(A.rows, (r - 1) % p, (c - 1) % q))])])

\* mutant: the entry written at (j * q + l, i * p + k), row and column index
\* exchanged
tensorProductTransposed(A, B) ==
    IF TensorOperandsInvalid(A, B) THEN << <<One>> >>
    ELSE LET m == Len(A.rows)
             n == Len(A.rows[1])
             p == Len(B.rows)
             q == Len(B.rows[1])
         IN  Eager([c \in 1..(n * q) |-> Eager([r \in 1..(m * p) |->
                 NumMul(Elem(A.rows, (r - 1) \div p, (c - 1) \div q),
                        Elem(B.rows, (r - 1) % p, (c - 1) % q))])])

\* A and B are JavaScript values; the result is a matrix
tensorProduct(A, B) ==
    IF TensorOperandsInvalid(A, B) THEN << <<One>> >>
    ELSE LET m == Len(A.rows)
             n == Len(A.rows[1])
             p == Len(B.rows)
             q == Len(B.rows[1])
         IN  Eager([r \in 1..(m * p) |-> Eager([c \in 1..(n * q) |->
                 NumMul(Elem(A.rows, (r - 1) \div p, (c - 1) \div q),
                        Elem(B.rows, (r - 1) % p, (c - 1) % q))])])

RECURSIVE TraceFrom(_, _, _)
TraceFrom(matrix, i, tr) ==
    IF i >= Len(matrix) THEN tr
    ELSE TraceFrom(matrix, i + 1, NumAdd(tr, Elem(matrix, i, i)))

trace(matrix) == TraceFrom(matrix, 0, Zero)

matrixTrace(matrix) == trace(matrixMultiply(matrix, matrix))

transpose(matrix) ==
    Eager([c \in 1..Len(matrix[1]) |-> Eager([r \in 1..Len(matrix) |-> Elem(matrix, r - 1, c - 1)])])

(***************************************************************************)
(* State evolution engine                                                  *)
(***************************************************************************)
\* mutant: dimension 2 * numQubits in place of 2^numQubits
createInitialStateLinear(numQubits) ==
    LET dim == 2 * numQubits
    IN  Eager([i \in 1..dim |-> Eager([j \in 1..dim |-> IF i = 1 /\ j = 1 THEN One ELSE Zero])])

\* Array(dim) raises a RangeError when dim = 2^numQubits is no integer
createInitialStateThrows(numQubits) == numQubits < 0

createInitialState(numQubits) ==
    LET dim == Pow2(numQubits)
    IN  Eager([i \in 1..dim |-> Eager([j \in 1..dim |-> IF i = 1 /\ j = 1 THEN One ELSE Zero])])

RECURSIVE FullGateFromReversed(_, _, _, _, _)
\* mutant: the factors accumulated right to left, currentGate (x) fullGate
FullGateFromReversed(gateMatrix, qubit, numQubits, i, fullGate) ==
    IF i >= numQubits THEN fullGate
    ELSE FullGateFromReversed(gateMatrix, qubit, numQubits, i + 1,
             tensorProduct(IF i = qubit THEN gateMatrix ELSE Arr(PAULI.I), Arr(fullGate)))

RECURSIVE FullGateFrom(_, _, _, _, _)
\* the loop of applySingleQubitGate from position i on
FullGateFrom(gateMatrix, qubit, numQubits, i, fullGate) ==
    IF i >= numQubits THEN fullGate
    ELSE FullGateFrom(gateMatrix, qubit, numQubits, i + 1,
             tensorProduct(Arr(fullGate), IF i = qubit THEN gateMatrix ELSE Arr(PAULI.I)))

\* mutant: U * rho, the multiplication by transpose(U) forgotten
applySingleQubitGateNoAdjoint(st, gateMatrix, qubit, numQubits) ==
    matrixMultiply(FullGateFrom(gateMatrix, qubit, numQubits, 0, << <<One>> >>), st)

\* gateMatrix is a JavaScript value
applySingleQubitGate(st, gateMatrix, qubit, numQubits) ==
    LET fullGate == FullGateFrom(gateMatrix, qubit, numQubits, 0, << <<One>> >>)
        newState == matrixMultiply(fullGate, st)
    IN  matrixMultiply(newState, transpose(fullGate))

\* transpose(gateMatrix) reads gateMatrix[0].map, and matrixMultiply reads
\* B[0].length of the transposed matrix: a TypeError when either is undefined
applyTwoQubitGateThrows(gateMatrix) ==
    IF NoFirstRow(gateMatrix) THEN TRUE ELSE Len(gateMatrix.rows[1]) = 0

\* mutant: G * rho, the multiplication by transpose(G) forgotten
applyTwoQubitGateNoAdjoint(st, gateMatrix, qubit1, qubit2, numQubits) ==
    matrixMultiply(gateMatrix.rows, st)

\* mutant: a pair given in descending order is not applied
applyTwoQubitGateAscendingOnly(st, gateMatrix, qubit1, qubit2, numQubits) ==
    IF qubit1 > qubit2 THEN st
    ELSE matrixMultiply(gateMatrix.rows, matrixMultiply(st, transpose(gateMatrix.rows)))

applyTwoQubitGate(st, gateMatrix, qubit1, qubit2, numQubits) ==
    matrixMultiply(gateMatrix.rows, matrixMultiply(st, transpose(gateMatrix.rows)))

\* gate.matrix || GATES[gate.name]
GateMatrixOf(gate) == IF gate.hasMatrix THEN Arr(gate.matrix) ELSE GatesLookup(gate.name)

applyGateThrows(st, gate, numQubits) ==
    IF Falsy(GateMatrixOf(gate)) \/ Len(gate.qubits) # 2 THEN FALSE
    ELSE applyTwoQubitGateThrows(GateMatrixOf(gate))

\* mutant: a gate with three or more qubit indices is applied to the first two
applyGateFirstTwo(st, gate, numQubits) ==
    LET gateMatrix == GateMatrixOf(gate)
    IN  IF Falsy(gateMatrix) THEN st
        ELSE IF Len(gate.qubits) = 1
             THEN applySingleQubitGate(st, gateMatrix, gate.qubits[1], numQubits)
        ELSE IF Len(gate.qubits) >= 2
             THEN applyTwoQubitGate(st, gateMatrix, gate.qubits[1], gate.qubits[2], numQubits)
        ELSE st

applyGate(st, gate, numQubits) ==
    LET gateMatrix == GateMatrixOf(gate)
    IN  IF Falsy(gateMatrix) THEN st
        ELSE IF Len(gate.qubits) = 1
             THEN applySingleQubitGate(st, gateMatrix, gate.qubits[1], numQubits)
        ELSE IF Len(gate.qubits) = 2
             THEN applyTwoQubitGate(st, gateMatrix, gate.qubits[1], gate.qubits[2], numQubits)
        ELSE st

(***************************************************************************)
(* Reduction engine                                                        *)
(***************************************************************************)
\* mutant: z computed with PAULI.X
calculateBlochVectorZX(densityMatrix) ==
    LET x == trace(matrixMultiply(densityMatrix, PAULI.X))
        y == trace(matrixMultiply(densityMatrix, PAULI.Y))
        z == trace(matrixMultiply(densityMatrix, PAULI.X))
    IN  [x |-> OrZero(x), y |-> OrZero(y), z |-> OrZero(z)]

calculateBlochVector(densityMatrix) ==
    LET x == trace(matrixMultiply(densityMatrix, PAULI.X))
        y == trace(matrixMultiply(densityMatrix, PAULI.Y))
        z == trace(matrixMultiply(densityMatrix, PAULI.Z))
    IN  [x |-> OrZero(x), y |-> OrZero(y), z |-> OrZero(z)]

\* stride = 2^(numQubits - qubitToKeep - 1)
Stride(qubitToKeep, numQubits) == Pow2(numQubits - qubitToKeep - 1)

\* row (or column) index of term k for kept-qubit value i
TraceIndex(i, k, stride) == i * stride + k * (stride * 2)

\* row < totalDim && col < totalDim
InBounds(row, col, totalDim) == row < totalDim /\ col < totalDim

\* fullState[row][col] raises a TypeError when fullState[row] is undefined
partialTraceThrows(fullState, qubitToKeep, numQubits) ==
    LET totalDim == Pow2(numQubits)
        stride == Stride(qubitToKeep, numQubits)
    IN  \E i \in 0..1, j \in 0..1, k \in 0..((totalDim \div 2) - 1) :
            /\ InBounds(TraceIndex(i, k, stride), TraceIndex(j, k, stride), totalDim)
            /\ TraceIndex(i, k, stride) >= Len(fullState)

RECURSIVE ReducedSumFrom(_, _, _, _, _, _, _)
\* the k-loop of partialTrace
ReducedSumFrom(fullState, i, j, k, stride, totalDim, sum) ==
    IF k >= totalDim \div 2 THEN sum
    ELSE LET row == TraceIndex(i, k, stride)
             col == TraceIndex(j, k, stride)
         IN  ReducedSumFrom(fullState, i, j, k + 1, stride, totalDim,
                 IF InBounds(row, col, totalDim)
                 THEN NumAdd(sum, Elem(fullState, row, col))
                 ELSE sum)

\* defined when ~partialTraceThrows
partialTrace(fullState, qubitToKeep, numQubits) ==
    LET totalDim == Pow2(numQubits)
        stride == Stride(qubitToKeep, numQubits)
        reducedMatrix == Eager([i \in 1..2 |-> Eager([j \in 1..2 |->
                             ReducedSumFrom(fullState, i - 1, j - 1, 0, stride, totalDim, Zero)])])
        purity == MathSqrt(matrixTrace(reducedMatrix))
    IN  [matrix |-> reducedMatrix,
         purity |-> MathMin1(purity),
         blochVector |-> calculateBlochVector(reducedMatrix)]

(***************************************************************************)
(* Inputs                                                                  *)
(***************************************************************************)
\* a circuit of n qubits and k gates has size n + k
MaxCircuitSize == 4

\* calls in a row in SpecRerun
MaxRuns == 3

SingleQubitNames == {"I", "X", "Z", "H"}

TwoQubitNames == {"CNOT"}

\* a name that is no property of GATES, and one GATES inherits
ForeignNames == {"FOO", "constructor"}

\* ordered pairs of distinct qubits (the one pair <<0, 0>> when n = 1)
QubitPairs(n) ==
    {pr \in (0..(n - 1)) \X (0..(n - 1)) : n = 1 \/ pr[1] # pr[2]}

\* gates without a matrix, looked up by name, on qubits of [0, n): catalog
\* gates on every qubit (pair), foreign names on the first qubit (pair)
GateInputs(n) ==
    {Gate(nm, <<q>>) : nm \in SingleQubitNames, q \in 0..(n - 1)}
    \cup {Gate(nm, pr) : nm \in TwoQubitNames, pr \in QubitPairs(n)}
    \cup {Gate(nm, qs) : nm \in ForeignNames, qs \in {<<0>>, <<0, IF n = 1 THEN 0 ELSE 1>>}}

SeqsUpTo(S, k) == UNION {[1..m -> S] : m \in 0..k}

Circuit(n, gs) == [numQubits |-> n, gates |-> gs]

EXAMPLE_CIRCUITS ==
    [Bell |-> Circuit(2, <<GateM("H", GATES.H, <<0>>), GateM("CNOT", GATES.CNOT, <<0, 1>>)>>),
     GHZ |-> Circuit(3, <<GateM("H", GATES.H, <<0>>), GateM("CNOT", GATES.CNOT, <<0, 1>>),
                          GateM("CNOT", GATES.CNOT, <<0, 2>>)>>),
     SuperpositionPhase |-> Circuit(2, <<GateM("H", GATES.H, <<0>>), GateM("S", GATES.S, <<0>>),
                                         GateM("H", GATES.H, <<1>>)>>),
     SwapTest |-> Circuit(2, <<GateM("H", GATES.H, <<0>>), GateM("X", GATES.X, <<1>>),
                               GateM("SWAP", GATES.SWAP, <<0, 1>>)>>),
     AllPauli |-> Circuit(3, <<GateM("X", GATES.X, <<0>>), GateM("Y", GATES.Y, <<1>>),
                               GateM("Z", GATES.Z, <<2>>)>>)]

ExampleCircuits == {EXAMPLE_CIRCUITS[k] : k \in DOMAIN EXAMPLE_CIRCUITS}

Circuits ==
    UNION {{Circuit(n, gs) : gs \in SeqsUpTo(GateInputs(n), MaxCircuitSize - n)} :
               n \in 1..MaxCircuitSize}
    \cup ExampleCircuits

\* the circuits called again and again in SpecRerun
RerunInputs ==
    ExampleCircuits
    \cup {Circuit(1, <<>>), Circuit(1, <<Gate("H", <<0>>)>>),
          Circuit(2, <<Gate("constructor", <<0, 1>>)>>)}

(***************************************************************************)
(* simulateCircuit, one step of its loops at a time                        *)
(***************************************************************************)
\* what the caller gets from a finished call
Outcome ==
    IF pc = "thrown" THEN [status |-> "thrown", value |-> <<>>]
    ELSE [status |-> "returned", value |-> reducedStates]

\* mutant: the composite state of the previous call is kept when it has the
\* dimension the new call needs
EnterStateStale(previous, numQubits) ==
    IF Len(previous) = Pow2(numQubits) THEN previous ELSE createInitialState(numQubits)

\* let state = createInitialState(circuit.numQubits): a fresh local each call
EnterState(previous, numQubits) == createInitialState(numQubits)

\* mutant: the gates are taken from the end of the list
NextGateReversed(gates, consumed) == gates[Len(gates) - consumed]

\* the for-of loop takes the gates in list order
NextGate(gates, consumed) == gates[consumed + 1]

\* no direct call of an exported function is under way
NoKernelCall == [op |-> "none", args |-> <<>>, done |-> FALSE, result |-> <<>>]

\* the CircuitBuilder component is not mounted
NoBuilder == [mounted |-> FALSE]

\* no Workspace page is mounted
NoWorkspace == [mounted |-> FALSE]

Record(o) ==
    IF \E r \in seen : r.circuit = circuit THEN seen
    ELSE seen \cup {[circuit |-> circuit, run |-> run, outcome |-> o]}

Init ==
    /\ circuit \in Circuits
    /\ pc = "call"
    /\ state = <<>>
    /\ gi = 0
    /\ qi = 0
    /\ reducedStates = <<>>
    /\ run = 1
    /\ seen = {}
    /\ kernel = NoKernelCall
    /\ builder = NoBuilder
    /\ workspace = NoWorkspace

Enter ==
    /\ pc = "call"
    /\ ~createInitialStateThrows(circuit.numQubits)
    /\ state' = EnterState(state, circuit.numQubits)
    /\ gi' = 0
    /\ qi' = 0
    /\ reducedStates' = <<>>
    /\ pc' = "gates"
    /\ UNCHANGED <<circuit, run, seen, kernel, builder, workspace>>

ApplyNextGate ==
    /\ pc = "gates"
    /\ gi < Len(circuit.gates)
    /\ ~applyGateThrows(state, NextGate(circuit.gates, gi), circuit.numQubits)
    /\ state' = applyGate(state, NextGate(circuit.gates, gi), circuit.numQubits)
    /\ gi' = gi + 1
    /\ UNCHANGED <<circuit, pc, qi, reducedStates, run, seen, kernel, builder, workspace>>

GateThrows ==
    /\ pc = "gates"
    /\ gi < Len(circuit.gates)
    /\ applyGateThrows(state, NextGate(circuit.gates, gi), circuit.numQubits)
    /\ pc' = "thrown"
    /\ seen' = Record([status |-> "thrown", value |-> <<>>])
    /\ UNCHANGED <<circuit, state, gi, qi, reducedStates, run, kernel, builder, workspace>>

GatesDone ==
    /\ pc = "gates"
    /\ gi = Len(circuit.gates)
    /\ reducedStates' = <<>>
    /\ qi' = 0
    /\ pc' = "reduce"
    /\ UNCHANGED <<circuit, state, gi, run, seen, kernel, builder, workspace>>

ReduceNextQubit ==
    /\ pc = "reduce"
    /\ qi < circuit.numQubits
    /\ ~partialTraceThrows(state, qi, circuit.numQubits)
    /\ reducedStates' = Append(reducedStates, partialTrace(state, qi, circuit.numQubits))
    /\ qi' = qi + 1
    /\ UNCHANGED <<circuit, pc, state, gi, run, seen, kernel, builder, workspace>>

ReduceThrows ==
    /\ pc = "reduce"
    /\ qi < circuit.numQubits
    /\ partialTraceThrows(state, qi, circuit.numQubits)
    /\ pc' = "thrown"
    /\ seen' = Record([status |-> "thrown", value |-> <<>>])
    /\ UNCHANGED <<circuit, state, gi, qi, reducedStates, run, kernel, builder, workspace>>

Return ==
    /\ pc = "reduce"
    /\ qi = circuit.numQubits
    /\ pc' = "returned"
    /\ seen' = Record([status |-> "returned", value |-> reducedStates])
    /\ UNCHANGED <<circuit, state, gi, qi, reducedStates, run, kernel, builder, workspace>>

\* the caller simulates again
Call ==
    /\ pc \in {"returned", "thrown"}
    /\ run < MaxRuns
    /\ circuit' \in RerunInputs
    /\ run' = run + 1
    /\ pc' = "call"
    /\ UNCHANGED <<state, gi, qi, reducedStates, seen, kernel, builder, workspace>>

Next ==
    \/ Enter
    \/ ApplyNextGate
    \/ GateThrows
    \/ GatesDone
    \/ ReduceNextQubit
    \/ ReduceThrows
    \/ Return

Spec == Init /\ [][Next]_vars

InitRerun ==
    /\ circuit \in RerunInputs
    /\ pc = "call"
    /\ state = <<>>
    /\ gi = 0
    /\ qi = 0
    /\ reducedStates = <<>>
    /\ run = 1
    /\ seen = {}
    /\ kernel = NoKernelCall
    /\ builder = NoBuilder
    /\ workspace = NoWorkspace

NextRerun == Next \/ Call

SpecRerun == InitRerun /\ [][NextRerun]_vars

\* the circuits whose every gate carries a matrix or names a catalog gate
CatalogCircuits ==
    {c \in Circuits : \A k \in DOMAIN c.gates :
                          c.gates[k].hasMatrix \/ c.gates[k].name \in AVAILABLE_GATES}

InitCatalog ==
    /\ circuit \in CatalogCircuits
    /\ pc = "call"
    /\ state = <<>>
    /\ gi = 0
    /\ qi = 0
    /\ reducedStates = <<>>
    /\ run = 1
    /\ seen = {}
    /\ kernel = NoKernelCall
    /\ builder = NoBuilder
    /\ workspace = NoWorkspace

\* no gate of a catalog circuit makes applyGate throw
NextCatalog ==
    \/ Enter
    \/ ApplyNextGate
    \/ GatesDone
    \/ ReduceNextQubit
    \/ ReduceThrows
    \/ Return

SpecCatalog == InitCatalog /\ [][NextCatalog]_vars

(***************************************************************************)
(* Definitions the properties are stated with                              *)
(***************************************************************************)
Finished == pc \in {"returned", "thrown"}

RECURSIVE FoldGates(_, _)
\* applyGate(...applyGate(applyGate(initial, g1), g2)..., gk)
FoldGates(c, k) ==
    IF k = 0 THEN createInitialState(c.numQubits)
    ELSE applyGate(FoldGates(c, k - 1), c.gates[k], c.numQubits)

\* every gate has 1 or 2 qubit indices, all inside [0, numQubits)
WellShaped(c) ==
    /\ c.numQubits >= 1
    /\ \A k \in DOMAIN c.gates :
           /\ Len(c.gates[k].qubits) \in {1, 2}
           /\ \A m \in DOMAIN c.gates[k].qubits :
                  c.gates[k].qubits[m] \in 0..(c.numQubits - 1)

Half == Frac(1, 2)

Quarter == Frac(1, 4)

MinusOne == Num(-1)

\* a reduced state with the given matrix entries, purity sqrt(p2) and Bloch x, z
IsReduced(r, m00, m01, m10, m11, p2, x, z) ==
    /\ r.matrix = << <<m00, m01>>, <<m10, m11>> >>
    /\ r.purity = [sqrtOf |-> p2]
    /\ r.blochVector.x = x
    /\ r.blochVector.z = z

(***************************************************************************)
(* C1.  For every circuit of n >= 1 qubits whose gates all have 1 or 2     *)
(* qubit indices inside [0, n), simulateCircuit returns a list of exactly  *)
(* n reduced states, entry i being partialTrace(finalState, i, n).         *)
(* The code does not: see C1_ReturnsOnePerQubit's trace.                   *)
(***************************************************************************)
C1_ReturnsOnePerQubit ==
    (Finished /\ WellShaped(circuit)) =>
        IF pc # "returned" \/ Len(reducedStates) # circuit.numQubits THEN FALSE
        ELSE \A i \in 0..(circuit.numQubits - 1) :
                 IF partialTraceThrows(state, i, circuit.numQubits) THEN FALSE
                 ELSE reducedStates[i + 1] = partialTrace(state, i, circuit.numQubits)

(***************************************************************************)
(* C2.  The gates are applied strictly in list order, as a left fold of    *)
(* applyGate from createInitialState(numQubits): after k gates the         *)
(* composite state is the fold over the first k gates; and the 1-qubit     *)
(* circuits [X(0), H(0)] and [H(0), X(0)] return different reduced states  *)
(* (Bloch x = -1 for the first, x = 1 for the second).                     *)
(***************************************************************************)
OrderXH == Circuit(1, <<Gate("X", <<0>>), Gate("H", <<0>>)>>)

OrderHX == Circuit(1, <<Gate("H", <<0>>), Gate("X", <<0>>)>>)

C2_LeftFoldInOrder ==
    /\ pc # "call" => state = FoldGates(circuit, gi)
    /\ (pc = "returned" /\ circuit = OrderXH) =>
           /\ reducedStates[1].blochVector.x = MinusOne
           /\ reducedStates # <<partialTrace(FoldGates(OrderHX, 2), 0, 1)>>
    /\ (pc = "returned" /\ circuit = OrderHX) =>
           /\ reducedStates[1].blochVector.x = One
           /\ reducedStates # <<partialTrace(FoldGates(OrderXH, 2), 0, 1)>>

C2_Witness == pc = "returned" /\ circuit = OrderXH /\ gi = 2

(***************************************************************************)
(* C3.  For every n >= 1, createInitialState(n) is a 2^n x 2^n matrix      *)
(* whose entry (0,0) is 1 and whose other entries are 0; its trace is 1.   *)
(***************************************************************************)
C3_InitialState ==
    (pc = "gates" /\ gi = 0) =>
        /\ Len(state) = Pow2(circuit.numQubits)
        /\ \A i \in DOMAIN state :
               /\ Len(state[i]) = Pow2(circuit.numQubits)
               /\ \A j \in DOMAIN state[i] :
                      state[i][j] = IF i = 1 /\ j = 1 THEN One ELSE Zero
        /\ trace(state) = One

C3_Witness == pc = "gates" /\ gi = 0 /\ circuit.numQubits = 3 /\ Len(state) = 8

(***************************************************************************)
(* C4.  simulateCircuit on {numQubits: 1, gates: []} returns exactly one   *)
(* reduced state: matrix [[1,0],[0,0]], purity 1, Bloch vector (0, 0, 1).  *)
(***************************************************************************)
C4_EmptyCircuit ==
    (Finished /\ circuit = Circuit(1, <<>>)) =>
        /\ pc = "returned"
        /\ Len(reducedStates) = 1
        /\ IsReduced(reducedStates[1], One, Zero, Zero, Zero, One, Zero, One)
        /\ reducedStates[1].blochVector.y = Zero

C4_Witness == pc = "returned" /\ circuit = Circuit(1, <<>>)

(***************************************************************************)
(* C5.  simulateCircuit on the 1-qubit circuit [X on qubit 0] returns the  *)
(* reduced matrix [[0,0],[0,1]]: Bloch z = -1, x = 0, purity 1.            *)
(***************************************************************************)
C5_BitFlip ==
    (Finished /\ circuit = Circuit(1, <<Gate("X", <<0>>)>>)) =>
        /\ pc = "returned"
        /\ Len(reducedStates) = 1
        /\ IsReduced(reducedStates[1], Zero, Zero, Zero, One, One, Zero, MinusOne)

C5_Witness == pc = "returned" /\ circuit = Circuit(1, <<Gate("X", <<0>>)>>)

IsBell(c) ==
    /\ c.numQubits = 2
    /\ Len(c.gates) = 2
    /\ c.gates[1].name = "H"
    /\ c.gates[1].qubits = <<0>>
    /\ c.gates[1].hasMatrix => c.gates[1].matrix = GATES.H
    /\ c.gates[2].name = "CNOT"
    /\ c.gates[2].qubits = <<0, 1>>
    /\ c.gates[2].hasMatrix => c.gates[2].matrix = GATES.CNOT

IsProductCircuit(c) ==
    /\ c.numQubits = 2
    /\ \A k \in DOMAIN c.gates :
           /\ c.gates[k].name \in {"I", "X", "Z", "H"}
           /\ ~c.gates[k].hasMatrix
           /\ c.gates[k].qubits \in {<<0>>, <<1>>}

OnQubit(q, g) == g.qubits = <<q>>

RECURSIVE Retarget(_)
Retarget(gs) ==
    IF gs = <<>> THEN <<>> ELSE <<Gate(Head(gs).name, <<0>>)>> \o Retarget(Tail(gs))

\* the 1-qubit circuit of the gates of c addressed to q
OwnCircuit(c, q) ==
    Circuit(1, Retarget(SelectSeq(c.gates, LAMBDA g : OnQubit(q, g))))

OwnReduced(c, q) ==
    partialTrace(FoldGates(OwnCircuit(c, q), Len(OwnCircuit(c, q).gates)), 0, 1)

C8_ProductState ==
    (Finished /\ IsProductCircuit(circuit)) =>
        /\ pc = "returned"
        /\ Len(reducedStates) = 2
        /\ \A q \in 0..1 :
               /\ reducedStates[q + 1] = OwnReduced(circuit, q)
               /\ reducedStates[q + 1].purity = [sqrtOf |-> One]

(***************************************************************************)
(* C9.  simulateCircuit is deterministic: a call on a circuit that an      *)
(* earlier call has already simulated ends with the outcome of that        *)
(* earlier call, whatever was simulated in between.                        *)
(***************************************************************************)
C9_Deterministic ==
    Finished => \A r \in seen : r.circuit = circuit => r.outcome = Outcome

C9_Witness ==
    /\ pc = "returned"
    /\ run = 3
    /\ \E r \in seen : r.circuit = circuit /\ r.run = 1
    /\ \E r \in seen : r.circuit # circuit /\ r.run = 2

(***************************************************************************)
(* C10.  A gate without a matrix whose name is no key of the GATES catalog *)
(* leaves the composite state unchanged, and simulateCircuit goes on with  *)
(* the remaining gates as if it were absent (it never aborts the call).    *)
(* The code does not: see C10_UnknownGateIsAbsent's trace.                 *)
(***************************************************************************)
IsUnknown(g) == ~g.hasMatrix /\ g.name \notin AVAILABLE_GATES

C10_UnknownGateIsAbsent ==
    /\ (pc = "thrown" /\ gi < Len(circuit.gates)) => ~IsUnknown(circuit.gates[gi + 1])
    /\ (pc # "call" /\ gi > 0 /\ IsUnknown(circuit.gates[gi])) =>
           state = FoldGates(circuit, gi - 1)

(***************************************************************************)
(* The exported functions called directly, one call at a time: kernel      *)
(* holds the function's name and arguments, and after the call its result  *)
(* (status "returned" with the value, or "thrown").                        *)
(***************************************************************************)
KernelCall(op, args) == [op |-> op, args |-> args, done |-> FALSE, result |-> <<>>]

Returned(v) == [status |-> "returned", value |-> v]

Thrown == [status |-> "thrown", value |-> <<>>]

\* a rows x cols matrix with the distinct entries first, first + 1, ... in
\* row-major order
PatternMatrix(rows, cols, first) ==
    Eager([i \in 1..rows |-> Eager([j \in 1..cols |-> Num(first + (i - 1) * cols + (j - 1))])])

\* composite states of n qubits: the initial one, the ones one catalog gate
\* away from it, and one with 4^n distinct entries
KernelStates(n) ==
    {createInitialState(n), PatternMatrix(Pow2(n), Pow2(n), -1)}
    \cup {applyGate(createInitialState(n), Gate(nm, <<q>>), n) :
              nm \in {"X", "H"}, q \in 0..(n - 1)}

(***************************************************************************)
(* applyGate of the earlier revision (src/src/utils/quantumSimulation.ts): *)
(* gate.matrix is a required field there, a single-qubit gate is applied   *)
(* with it, and a two-qubit gate is applied only when it is named 'CNOT',  *)
(* with the catalog's CNOT matrix.                                         *)
(***************************************************************************)
\* tensorProduct without the guard: m, n, p, q are read at once
tensorProductEarlierThrows(A, B) ==
    Falsy(A) \/ NoFirstRow(A) \/ Falsy(B) \/ NoFirstRow(B)

\* defined when ~tensorProductEarlierThrows
tensorProductEarlier(A, B) ==
    LET m == Len(A.rows)
        n == Len(A.rows[1])
        p == Len(B.rows)
        q == Len(B.rows[1])
    IN  Eager([r \in 1..(m * p) |-> Eager([c \in 1..(n * q) |->
            NumMul(Elem(A.rows, (r - 1) \div p, (c - 1) \div q),
                   Elem(B.rows, (r - 1) % p, (c - 1) % q))])])

RECURSIVE FullGateFromEarlier(_, _, _, _, _)
FullGateFromEarlier(gateMatrix, qubit, numQubits, i, fullGate) ==
    IF i >= numQubits THEN fullGate
    ELSE FullGateFromEarlier(gateMatrix, qubit, numQubits, i + 1,
             tensorProductEarlier(Arr(fullGate), IF i = qubit THEN gateMatrix ELSE Arr(PAULI.I)))

applySingleQubitGateEarlier(st, gateMatrix, qubit, numQubits) ==
    LET fullGate == FullGateFromEarlier(gateMatrix, qubit, numQubits, 0, << <<One>> >>)
        newState == matrixMultiply(fullGate, st)
    IN  matrixMultiply(newState, transpose(fullGate))

applyCNOTGate(st, control, target, numQubits) ==
    matrixMultiply(GATES.CNOT, matrixMultiply(st, transpose(GATES.CNOT)))

\* gate.matrix, undefined when the gate carries none
GateMatrixEarlier(gate) == IF gate.hasMatrix THEN Arr(gate.matrix) ELSE Undefined

\* the one tensorProduct call that takes gate.matrix raises when it is
\* undefined or has no first row
applyGateEarlierThrows(st, gate, numQubits) ==
    IF Len(gate.qubits) # 1 THEN FALSE
    ELSE IF gate.qubits[1] \notin 0..(numQubits - 1) THEN FALSE
    ELSE tensorProductEarlierThrows(Arr(<< <<One>> >>), GateMatrixEarlier(gate))

\* defined when ~applyGateEarlierThrows
applyGateEarlier(st, gate, numQubits) ==
    IF Len(gate.qubits) = 1
    THEN applySingleQubitGateEarlier(st, GateMatrixEarlier(gate), gate.qubits[1], numQubits)
    ELSE IF gate.name = "CNOT" /\ Len(gate.qubits) = 2
         THEN applyCNOTGate(st, gate.qubits[1], gate.qubits[2], numQubits)
    ELSE st

\* the qubit counts of the direct applyGate calls
KernelQubits == 1..2

GateNamesForMatrix == {"X", "Z", "CNOT", "SWAP", "FOO"}

\* gates that carry a matrix, under a name that may be the catalog key of
\* another matrix: 2x2 matrices on one qubit, 4x4 matrices on a pair
MatrixGates(n) ==
    {GateM(nm, GATES[m], <<q>>) :
         nm \in GateNamesForMatrix, m \in {"X", "Z", "H"}, q \in 0..(n - 1)}
    \cup {GateM(nm, GATES[m], pr) :
              nm \in GateNamesForMatrix, m \in {"CNOT", "SWAP"},
              pr \in {p2 \in QubitPairs(n) : n = 2}}

\* gates without a matrix, named after a catalog entry
NamedGates(n) ==
    {Gate(nm, <<q>>) : nm \in {"X", "Z", "H"}, q \in 0..(n - 1)}
    \cup {Gate(nm, pr) : nm \in {"CNOT", "SWAP"}, pr \in {p2 \in QubitPairs(n) : n = 2}}

InitApplyGate ==
    /\ circuit = Circuit(1, <<>>)
    /\ pc = "idle"
    /\ state = <<>>
    /\ gi = 0
    /\ qi = 0
    /\ reducedStates = <<>>
    /\ run = 1
    /\ seen = {}
    /\ builder = NoBuilder
    /\ workspace = NoWorkspace
    /\ \E n \in KernelQubits :
           \E st \in KernelStates(n) :
               \/ \E g \in MatrixGates(n) \cup NamedGates(n) :
                      kernel = KernelCall("applyGate", <<st, g, n>>)
               \/ \E g \in MatrixGates(n) :
                      kernel = KernelCall("applyGateEarlier", <<st, g, n>>)

CallApplyGate ==
    /\ kernel.op = "applyGate"
    /\ ~kernel.done
    /\ kernel' = [kernel EXCEPT !.done = TRUE,
                                !.result = Returned(applyGate(kernel.args[1], kernel.args[2],
                                                              kernel.args[3]))]
    /\ UNCHANGED <<circuit, pc, state, gi, qi, reducedStates, run, seen, builder, workspace>>

CallApplyGateEarlier ==
    /\ kernel.op = "applyGateEarlier"
    /\ ~kernel.done
    /\ kernel' = [kernel EXCEPT !.done = TRUE,
                                !.result = Returned(applyGateEarlier(kernel.args[1], kernel.args[2],
                                                                     kernel.args[3]))]
    /\ UNCHANGED <<circuit, pc, state, gi, qi, reducedStates, run, seen, builder, workspace>>

NextApplyGate == CallApplyGate \/ CallApplyGateEarlier

SpecApplyGate == InitApplyGate /\ [][NextApplyGate]_vars

(***************************************************************************)
(* C11.  When a gate carries a matrix, applyGate applies that matrix (to   *)
(* the one qubit, or as the two-qubit conjugation) and never the catalog   *)
(* entry of the gate's name; the catalog is used only for a gate without   *)
(* a matrix.  The later revision does so; the earlier revision does not:   *)
(* see C11_ExplicitMatrixWins's trace.                                     *)
(***************************************************************************)
\* what applying the matrix M to the qubits qs of st gives
ActsAs(st, M, qs, n) ==
    IF Len(qs) = 1 THEN applySingleQubitGate(st, Arr(M), qs[1], n)
    ELSE applyTwoQubitGate(st, Arr(M), qs[1], qs[2], n)

C11_ExplicitMatrixWins ==
    (kernel.op \in {"applyGate", "applyGateEarlier"} /\ kernel.done) =>
        LET st == kernel.args[1]
            g == kernel.args[2]
            n == kernel.args[3]
        IN  kernel.result =
                Returned(ActsAs(st, IF g.hasMatrix THEN g.matrix ELSE GATES[g.name], g.qubits, n))

\* the same for the later revision alone, where it holds
C11_LaterRevision ==
    (kernel.op = "applyGate" /\ kernel.done) =>
        LET st == kernel.args[1]
            g == kernel.args[2]
            n == kernel.args[3]
        IN  kernel.result =
                Returned(ActsAs(st, IF g.hasMatrix THEN g.matrix ELSE GATES[g.name], g.qubits, n))

(***************************************************************************)
(* simulateCircuit called with circuits of an invalid shape                *)
(***************************************************************************)
\* let state = createInitialState(circuit.numQubits) raises
EnterThrows ==
    /\ pc = "call"
    /\ createInitialStateThrows(circuit.numQubits)
    /\ pc' = "thrown"
    /\ seen' = Record([status |-> "thrown", value |-> <<>>])
    /\ UNCHANGED <<circuit, state, gi, qi, reducedStates, run, kernel, builder, workspace>>

\* gates on n qubits with a qubit index outside [0, n) or with a number of
\* qubit indices that is neither 1 nor 2
MisshapenGates(n) ==
    {Gate("X", <<n>>), Gate("X", <<-1>>), Gate("H", <<n + 1>>),
     Gate("CNOT", <<0, n>>), Gate("CNOT", <<n, 0>>), Gate("constructor", <<0, n>>),
     Gate("X", <<>>), Gate("CNOT", <<0, 0, 0>>)}

\* valid gates that go with them
ShapelyGates(n) ==
    {Gate(nm, <<q>>) : nm \in {"X", "H"}, q \in 0..(n - 1)}

\* a qubit count <= 0, or one misshapen gate among at most two gates
InvalidCircuits ==
    {Circuit(n, gs) : n \in {-1, 0}, gs \in {<<>>, <<Gate("X", <<0>>)>>, <<Gate("CNOT", <<0, 1>>)>>}}
    \cup UNION {{Circuit(n, <<g>>) : g \in MisshapenGates(n)} : n \in 1..3}
    \cup UNION {{Circuit(n, <<g, h>>) : g \in MisshapenGates(n), h \in ShapelyGates(n)} : n \in 1..2}
    \cup UNION {{Circuit(n, <<h, g>>) : g \in MisshapenGates(n), h \in ShapelyGates(n)} : n \in 1..2}

InitInvalid ==
    /\ circuit \in InvalidCircuits
    /\ pc = "call"
    /\ state = <<>>
    /\ gi = 0
    /\ qi = 0
    /\ reducedStates = <<>>
    /\ run = 1
    /\ seen = {}
    /\ kernel = NoKernelCall
    /\ builder = NoBuilder
    /\ workspace = NoWorkspace

NextInvalid == Next \/ EnterThrows

SpecInvalid == InitInvalid /\ [][NextInvalid]_vars

(***************************************************************************)
(* C12.  A circuit of an invalid shape (numQubits <= 0, a qubit index      *)
(* outside [0, numQubits), a gate with neither 1 nor 2 qubit indices) is   *)
(* rejected: simulateCircuit raises an error and returns no result list.   *)
(* The code does not: see C12_InvalidShapeRejected's trace.                *)
(***************************************************************************)
C12_InvalidShapeRejected == pc = "returned" => WellShaped(circuit)

(***************************************************************************)
(* The gate palette and the CircuitBuilder component                       *)
(* (src/src/components/QuantumGate.tsx, src/unnamed/part_002).             *)
(***************************************************************************)
SINGLE_QUBIT_GATES == <<"I", "X", "Y", "Z", "H", "S", "T", "RX", "RY", "RZ">>

TWO_QUBIT_GATES == <<"CNOT", "CZ", "SWAP">>

GateProps(name, type) == [name |-> name, type |-> type]

\* mutant: SWAP listed as a single-qubit gate
QUANTUM_GATES_SwapSingle ==
    <<GateProps("I", "single"), GateProps("X", "single"), GateProps("Y", "single"),
      GateProps("Z", "single"), GateProps("H", "single"), GateProps("S", "single"),
      GateProps("T", "single"), GateProps("RX", "single"), GateProps("RY", "single"),
      GateProps("RZ", "single"), GateProps("CNOT", "double"), GateProps("CZ", "double"),
      GateProps("SWAP", "single")>>

\* name and type of the palette's entries (colour, symbol and description are
\* only rendered)
QUANTUM_GATES ==
    <<GateProps("I", "single"), GateProps("X", "single"), GateProps("Y", "single"),
      GateProps("Z", "single"), GateProps("H", "single"), GateProps("S", "single"),
      GateProps("T", "single"), GateProps("RX", "single"), GateProps("RY", "single"),
      GateProps("RZ", "single"), GateProps("CNOT", "double"), GateProps("CZ", "double"),
      GateProps("SWAP", "double")>>

Range(seq) == {seq[k] : k \in DOMAIN seq}

\* the largest qubit count the builder is taken to
MaxBuilderQubits == 3

\* the number of gates dropped on the canvas
MaxDrops == 2

\* the palette entries dragged
DraggedNames == {"X", "SWAP"}

\* parseInt(e.target.value) for the texts typed into the number field; NaN for
\* the empty text
TypedCounts == {NaN} \cup {Num(k) : k \in -1..MaxBuilderQubits}

NoGate == GateProps("", "none")

\* the circuit handed to onCircuitChange
BuilderCircuit(n, circuitGates) ==
    Circuit(n, [k \in DOMAIN circuitGates |->
                   [name |-> circuitGates[k].gate.name, qubits |-> circuitGates[k].qubits]])

\* the text of the Circuit JSON field: empty, the JSON text of a circuit
\* (names and qubit lists; JSON.parse gives the circuit back), or a text that
\* JSON.parse rejects
EmptyText == [kind |-> "empty", circuit |-> <<>>]

JsonText(c) == [kind |-> "json", circuit |-> <<c>>]

GarbageText == [kind |-> "garbage", circuit |-> <<>>]

\* the useState initial values of Workspace; toast is the last message of
\* handleSimulate
InitialWorkspace ==
    [mounted |-> TRUE, circuitCode |-> EmptyText, reducedStates |-> <<>>,
     isSimulating |-> FALSE, selectedExample |-> "", currentCircuit |-> <<>>,
     toast |-> ""]

\* setCurrentCircuit(circuit); setNumQubits(circuit.numQubits);
\* setCircuitCode(JSON.stringify(circuit, null, 2)): the builder passes its own
\* numQubits prop, so setNumQubits leaves the count as it is
handleCircuitChange(ws, c) ==
    [ws EXCEPT !.currentCircuit = <<c>>, !.circuitCode = JsonText(c)]

\* Workspace mounts the builder with numQubits = 2
InitBuilder ==
    /\ circuit = Circuit(1, <<>>)
    /\ pc = "idle"
    /\ state = <<>>
    /\ gi = 0
    /\ qi = 0
    /\ reducedStates = <<>>
    /\ run = 1
    /\ seen = {}
    /\ kernel = NoKernelCall
    /\ builder = [mounted |-> TRUE, numQubits |-> 2, circuitGates |-> <<>>,
                  draggedGate |-> NoGate, selectedQubit |-> 0, drops |-> 0,
                  emitted |-> <<>>]
    /\ workspace = InitialWorkspace

BuilderUnchanged == UNCHANGED <<circuit, pc, state, gi, qi, reducedStates, run, seen, kernel>>

handleDragStart ==
    /\ builder.mounted
    /\ \E k \in DOMAIN QUANTUM_GATES :
           /\ QUANTUM_GATES[k].name \in DraggedNames
           /\ builder' = [builder EXCEPT !.draggedGate = QUANTUM_GATES[k]]
    /\ UNCHANGED workspace
    /\ BuilderUnchanged

\* a drop with a gate dragged; without one handleDrop returns at once
handleDrop ==
    /\ builder.mounted
    /\ builder.draggedGate # NoGate
    /\ builder.drops < MaxDrops
    /\ LET single == builder.draggedGate.type = "single"
           room == builder.selectedQubit < builder.numQubits - 1
           qubits == IF single THEN <<builder.selectedQubit>>
                     ELSE <<builder.selectedQubit, builder.selectedQubit + 1>>
           newGate == [id |-> builder.drops + 1, gate |-> builder.draggedGate, qubits |-> qubits]
       IN  IF ~single /\ ~room
           THEN UNCHANGED <<builder, workspace>>
           ELSE /\ builder' = [builder EXCEPT
                     !.circuitGates = Append(builder.circuitGates, newGate),
                     !.draggedGate = NoGate,
                     !.drops = builder.drops + 1,
                     !.emitted = <<BuilderCircuit(builder.numQubits,
                                                  Append(builder.circuitGates, newGate))>>]
                /\ workspace' = handleCircuitChange(workspace,
                                     BuilderCircuit(builder.numQubits,
                                                    Append(builder.circuitGates, newGate)))
    /\ BuilderUnchanged

\* mutant: the circuit handed to onCircuitChange is built from the list
\* before the removal
removeGateEmitsBefore ==
    /\ builder.mounted
    /\ \E k \in DOMAIN builder.circuitGates :
           LET gateId == builder.circuitGates[k].id
               updated == SelectSeq(builder.circuitGates, LAMBDA g : g.id # gateId)
           IN  /\ builder' = [builder EXCEPT
                       !.circuitGates = updated,
                       !.emitted = <<BuilderCircuit(builder.numQubits, builder.circuitGates)>>]
               /\ workspace' = handleCircuitChange(workspace,
                                    BuilderCircuit(builder.numQubits, builder.circuitGates))
    /\ BuilderUnchanged

removeGate ==
    /\ builder.mounted
    /\ \E k \in DOMAIN builder.circuitGates :
           LET gateId == builder.circuitGates[k].id
               updated == SelectSeq(builder.circuitGates, LAMBDA g : g.id # gateId)
           IN  /\ builder' = [builder EXCEPT
                       !.circuitGates = updated,
                       !.emitted = <<BuilderCircuit(builder.numQubits, updated)>>]
               /\ workspace' = handleCircuitChange(workspace,
                                    BuilderCircuit(builder.numQubits, updated))
    /\ BuilderUnchanged

clearCircuit ==
    /\ builder.mounted
    /\ builder' = [builder EXCEPT
           !.circuitGates = <<>>,
           !.emitted = <<BuilderCircuit(builder.numQubits, <<>>)>>]
    /\ workspace' = handleCircuitChange(workspace, BuilderCircuit(builder.numQubits, <<>>))
    /\ BuilderUnchanged

\* the - button: onQubitCountChange(Math.max(1, numQubits - 1)), disabled at 1
DecrementQubits ==
    /\ builder.mounted
    /\ builder.numQubits > 1
    /\ builder' = [builder EXCEPT
           !.numQubits = IF builder.numQubits - 1 > 1 THEN builder.numQubits - 1 ELSE 1]
    /\ UNCHANGED workspace
    /\ BuilderUnchanged

\* the + button: onQubitCountChange(Math.min(6, numQubits + 1)), disabled at 6
IncrementQubits ==
    /\ builder.mounted
    /\ builder.numQubits < 6
    /\ builder.numQubits < MaxBuilderQubits
    /\ builder' = [builder EXCEPT
           !.numQubits = IF builder.numQubits + 1 < 6 THEN builder.numQubits + 1 ELSE 6]
    /\ UNCHANGED workspace
    /\ BuilderUnchanged

\* the number field: onQubitCountChange(Math.max(1, parseInt(value) || 1))
TypeQubitCount ==
    /\ builder.mounted
    /\ \E v \in TypedCounts :
           LET parsed == IF IsNaN(v) \/ v = Zero THEN 1 ELSE v.a
           IN  builder' = [builder EXCEPT !.numQubits = IF parsed > 1 THEN parsed ELSE 1]
    /\ UNCHANGED workspace
    /\ BuilderUnchanged

\* one button per qubit of the current count
SelectTargetQubit ==
    /\ builder.mounted
    /\ \E i \in 0..(builder.numQubits - 1) :
           builder' = [builder EXCEPT !.selectedQubit = i]
    /\ UNCHANGED workspace
    /\ BuilderUnchanged

NextBuilder ==
    \/ handleDragStart
    \/ handleDrop
    \/ removeGate
    \/ clearCircuit
    \/ DecrementQubits
    \/ IncrementQubits
    \/ TypeQubitCount
    \/ SelectTargetQubit

SpecBuilder == InitBuilder /\ [][NextBuilder]_vars

(***************************************************************************)
(* C13.  Every gate of every circuit the CircuitBuilder passes to          *)
(* onCircuitChange has all its qubit indices inside [0, numQubits) of that *)
(* circuit.  The code does not: see C13_BuilderIndicesInRange's trace.     *)
(***************************************************************************)
IndicesInRange(c) ==
    \A k \in DOMAIN c.gates :
        \A m \in DOMAIN c.gates[k].qubits :
            c.gates[k].qubits[m] \in 0..(c.numQubits - 1)

C13_BuilderIndicesInRange ==
    builder.mounted =>
        \A k \in DOMAIN builder.emitted : IndicesInRange(builder.emitted[k])

(***************************************************************************)
(* C14.  SINGLE_QUBIT_GATES and TWO_QUBIT_GATES are disjoint and together  *)
(* are exactly the keys of GATES; a single-qubit name maps to a 2x2 matrix *)
(* and a two-qubit name to a 4x4 matrix; the palette QUANTUM_GATES lists   *)
(* the same names, typed 'single' / 'double' after that partition, so      *)
(* every gate the builder places has the qubit count of its catalog        *)
(* matrix.                                                                 *)
(***************************************************************************)
IsSquare(M, dim) == Len(M) = dim /\ \A i \in DOMAIN M : Len(M[i]) = dim

C14_CatalogPartition ==
    /\ Range(SINGLE_QUBIT_GATES) \cap Range(TWO_QUBIT_GATES) = {}
    /\ Range(SINGLE_QUBIT_GATES) \cup Range(TWO_QUBIT_GATES) = AVAILABLE_GATES
    /\ \A nm \in Range(SINGLE_QUBIT_GATES) : IsSquare(GATES[nm], 2)
    /\ \A nm \in Range(TWO_QUBIT_GATES) : IsSquare(GATES[nm], 4)
    /\ {QUANTUM_GATES[k].name : k \in DOMAIN QUANTUM_GATES} = AVAILABLE_GATES
    /\ Len(QUANTUM_GATES) = Cardinality(AVAILABLE_GATES)
    /\ \A k \in DOMAIN QUANTUM_GATES :
           QUANTUM_GATES[k].type =
               IF QUANTUM_GATES[k].name \in Range(SINGLE_QUBIT_GATES) THEN "single" ELSE "double"
    /\ builder.mounted =>
           \A k \in DOMAIN builder.circuitGates :
               LET g == builder.circuitGates[k]
               IN  /\ g.gate.name \in AVAILABLE_GATES
                   /\ IsSquare(GATES[g.gate.name], Pow2(Len(g.qubits)))

C14_Witness ==
    /\ builder.mounted
    /\ \E k \in DOMAIN builder.circuitGates :
           /\ builder.circuitGates[k].gate.type = "double"
           /\ builder.circuitGates[k].gate.name \in Range(TWO_QUBIT_GATES)
           /\ Len(builder.circuitGates[k].qubits) = 2
    /\ \E k \in DOMAIN builder.circuitGates :
           /\ builder.circuitGates[k].gate.type = "single"
           /\ builder.circuitGates[k].gate.name \in Range(SINGLE_QUBIT_GATES)
           /\ Len(builder.circuitGates[k].qubits) = 1

(***************************************************************************)
(* tensorProduct called directly                                           *)
(***************************************************************************)
\* rows and columns of the matrices handed to tensorProduct
MaxKernelDim == 2

\* rectangular matrices with distinct entries, some negative or zero
KernelMatrices ==
    {PatternMatrix(r, c, first) : r \in 1..MaxKernelDim, c \in 1..MaxKernelDim, first \in {-1, 2}}

\* undefined, [], [[]], and two ragged arrays
MalformedOperands ==
    {Undefined, Arr(<<>>), Arr(<< <<>> >>),
     Arr(<< <<Num(1), Num(2)>>, <<Num(3)>> >>),
     Arr(<< <<Num(1)>>, <<Num(2), Num(3)>> >>)}

TensorOperands == {Arr(M) : M \in KernelMatrices} \cup MalformedOperands

InitTensor ==
    /\ circuit = Circuit(1, <<>>)
    /\ pc = "idle"
    /\ state = <<>>
    /\ gi = 0
    /\ qi = 0
    /\ reducedStates = <<>>
    /\ run = 1
    /\ seen = {}
    /\ builder = NoBuilder
    /\ workspace = NoWorkspace
    /\ \/ \E A \in TensorOperands, B \in TensorOperands :
              kernel = KernelCall("tensorProduct", <<A, B>>)
       \/ \E A \in KernelMatrices, B \in KernelMatrices, C \in KernelMatrices :
              kernel = KernelCall("tensorProductNested", <<A, B, C>>)

\* tensorProduct(A, B)
CallTensorProduct ==
    /\ kernel.op = "tensorProduct"
    /\ ~kernel.done
    /\ kernel' = [kernel EXCEPT !.done = TRUE,
                                !.result = Returned(tensorProduct(kernel.args[1], kernel.args[2]))]
    /\ UNCHANGED <<circuit, pc, state, gi, qi, reducedStates, run, seen, builder, workspace>>

\* tensorProduct(tensorProduct(A, B), C) and tensorProduct(A, tensorProduct(B, C))
CallTensorProductNested ==
    /\ kernel.op = "tensorProductNested"
    /\ ~kernel.done
    /\ LET A == Arr(kernel.args[1])
           B == Arr(kernel.args[2])
           C == Arr(kernel.args[3])
       IN  kernel' = [kernel EXCEPT
               !.done = TRUE,
               !.result = Returned(<<tensorProduct(Arr(tensorProduct(A, B)), C),
                                     tensorProduct(A, Arr(tensorProduct(B, C)))>>)]
    /\ UNCHANGED <<circuit, pc, state, gi, qi, reducedStates, run, seen, builder, workspace>>

NextTensor == CallTensorProduct \/ CallTensorProductNested

SpecTensor == InitTensor /\ [][NextTensor]_vars

\* a non-empty array of rows of one non-zero length
IsRectangular(v) ==
    IF v.tag # "array" THEN FALSE
    ELSE IF Len(v.rows) = 0 THEN FALSE
    ELSE /\ Len(v.rows[1]) > 0
         /\ \A i \in DOMAIN v.rows : Len(v.rows[i]) = Len(v.rows[1])

(***************************************************************************)
(* C15.  For non-empty rectangular A (rowsA x colsA) and B (rowsB x colsB) *)
(* tensorProduct(A, B) has rowsA*rowsB rows of colsA*colsB entries, and    *)
(* its entry (i*rowsB + k, j*colsB + l) is A[i][j] * B[k][l].              *)
(***************************************************************************)
C15_KroneckerProduct ==
    (kernel.op = "tensorProduct" /\ kernel.done
        /\ IsRectangular(kernel.args[1]) /\ IsRectangular(kernel.args[2])) =>
        LET A == kernel.args[1].rows
            B == kernel.args[2].rows
            R == kernel.result.value
        IN  /\ kernel.result.status = "returned"
            /\ Len(R) = Len(A) * Len(B)
            /\ \A r \in DOMAIN R : Len(R[r]) = Len(A[1]) * Len(B[1])
            /\ \A i \in 0..(Len(A) - 1), j \in 0..(Len(A[1]) - 1),
                  k \in 0..(Len(B) - 1), l \in 0..(Len(B[1]) - 1) :
                   R[i * Len(B) + k + 1][j * Len(B[1]) + l + 1]
                       = Num(A[i + 1][j + 1].a * B[k + 1][l + 1].a)

C15_Witness ==
    /\ kernel.op = "tensorProduct"
    /\ kernel.done
    /\ kernel.args[1] = Arr(PatternMatrix(2, 1, 2))
    /\ kernel.args[2] = Arr(PatternMatrix(1, 2, -1))
    /\ kernel.result.value = IntMatrix(<< <<-2, 0>>, <<-3, 0>> >>)

(***************************************************************************)
(* C16.  tensorProduct is associative: tensorProduct(tensorProduct(A, B),  *)
(* C) and tensorProduct(A, tensorProduct(B, C)) have the same shape and    *)
(* the same entries.                                                       *)
(***************************************************************************)
C16_Associative ==
    (kernel.op = "tensorProductNested" /\ kernel.done) =>
        /\ kernel.result.status = "returned"
        /\ kernel.result.value[1] = kernel.result.value[2]
        /\ Len(kernel.result.value[1])
               = Len(kernel.args[1]) * Len(kernel.args[2]) * Len(kernel.args[3])

C16_Witness ==
    /\ kernel.op = "tensorProductNested"
    /\ kernel.done
    /\ kernel.args = <<PatternMatrix(2, 1, 2), PatternMatrix(1, 2, -1), PatternMatrix(2, 2, 2)>>
    /\ Len(kernel.result.value[1]) = 4
    /\ Len(kernel.result.value[2][1]) = 4

(***************************************************************************)
(* C17.  tensorProduct returns [[1]] whenever an operand is malformed:     *)
(* null or undefined, an empty array, an array whose first row is empty,   *)
(* or a ragged array.  The code does not: see C17_MalformedRejected's      *)
(* trace.                                                                  *)
(***************************************************************************)
C17_MalformedRejected ==
    (kernel.op = "tensorProduct" /\ kernel.done
        /\ (~IsRectangular(kernel.args[1]) \/ ~IsRectangular(kernel.args[2]))) =>
        kernel.result = Returned(<< <<One>> >>)

(***************************************************************************)
(* partialTrace called directly                                            *)
(***************************************************************************)
\* all 2x2 matrices with entries -1 .. 2
SmallStates ==
    {IntMatrix(<< <<a, b>>, <<c, d>> >>) : a \in -1..2, b \in -1..2, c \in -1..2, d \in -1..2}

\* 2^n x 2^n states: every small matrix for one qubit; for two qubits the
\* states of KernelStates and the final state of the Bell circuit
TraceStates(n) ==
    IF n = 1 THEN SmallStates \cup KernelStates(1)
    ELSE IF n = 2 THEN KernelStates(2) \cup {FoldGates(EXAMPLE_CIRCUITS.Bell, 2)}
    ELSE KernelStates(n)

\* the qubit counts of the direct partialTrace calls
TraceQubits == 1..3

InitPartialTrace ==
    /\ circuit = Circuit(1, <<>>)
    /\ pc = "idle"
    /\ state = <<>>
    /\ gi = 0
    /\ qi = 0
    /\ reducedStates = <<>>
    /\ run = 1
    /\ seen = {}
    /\ builder = NoBuilder
    /\ workspace = NoWorkspace
    /\ \E n \in TraceQubits :
           \E fullState \in TraceStates(n), qubitToKeep \in 0..(n - 1) :
               kernel = KernelCall("partialTrace", <<fullState, qubitToKeep, n>>)

CallPartialTrace ==
    /\ kernel.op = "partialTrace"
    /\ ~kernel.done
    /\ kernel' = [kernel EXCEPT
           !.done = TRUE,
           !.result = IF partialTraceThrows(kernel.args[1], kernel.args[2], kernel.args[3])
                      THEN Thrown
                      ELSE Returned(partialTrace(kernel.args[1], kernel.args[2], kernel.args[3]))]
    /\ UNCHANGED <<circuit, pc, state, gi, qi, reducedStates, run, seen, builder, workspace>>

NextPartialTrace == CallPartialTrace

SpecPartialTrace == InitPartialTrace /\ [][NextPartialTrace]_vars

(***************************************************************************)
(* C18.  For every 2^n x 2^n state and every qubit, the purity that        *)
(* partialTrace returns is min(sqrt(Tr(rho * rho)), 1) for the reduced     *)
(* matrix rho it returns: sqrt(Tr) while Tr <= 1, and 1 from Tr >= 1 on,   *)
(* so it never exceeds 1 (Tr < 0 gives NaN, as Math.sqrt does).            *)
(***************************************************************************)
\* Tr(M * M) of a 2x2 matrix, written out: m00^2 + 2 m01 m10 + m11^2
TraceOfSquare(M) ==
    NumAdd(NumAdd(NumMul(M[1][1], M[1][1]), NumMul(Num(2), NumMul(M[1][2], M[2][1]))),
           NumMul(M[2][2], M[2][2]))

C18_PurityClamped ==
    (kernel.op = "partialTrace" /\ kernel.done) =>
        /\ kernel.result.status = "returned"
        /\ LET r == kernel.result.value
               t == TraceOfSquare(r.matrix)
           IN  /\ r.purity = IF NumLess(t, Zero) THEN [sqrtOf |-> NaN]
                             ELSE IF NumLess(One, t) THEN [sqrtOf |-> One]
                             ELSE [sqrtOf |-> t]
               /\ ~NumLess(One, r.purity.sqrtOf)

C18_Witness ==
    /\ kernel.op = "partialTrace"
    /\ kernel.done
    /\ kernel.args[3] = 2
    /\ NumLess(One, TraceOfSquare(kernel.result.value.matrix))
    /\ kernel.result.value.purity = [sqrtOf |-> One]

(***************************************************************************)
(* C19.  For a gate with one qubit index q in [0, n) and a 2x2 matrix G,   *)
(* applyGate returns F * state * transpose(F), F being the 2^n x 2^n       *)
(* tensor product over the positions 0..n-1 (position 0 the leftmost,      *)
(* most significant factor) of G at position q and the identity elsewhere. *)
(***************************************************************************)
\* bit of index r (0-based) at position p of n, position 0 the most significant
BitAt(r, p, n) == (r \div Pow2(n - 1 - p)) % 2

RECURSIVE FactorProduct(_, _, _, _, _, _)
\* the product over positions p..n-1 of factor_p[bit_p(r)][bit_p(c)]
FactorProduct(G, q, n, r, c, p) ==
    IF p >= n THEN One
    ELSE NumMul((IF p = q THEN G ELSE PAULI.I)[BitAt(r, p, n) + 1][BitAt(c, p, n) + 1],
                FactorProduct(G, q, n, r, c, p + 1))

FullOperator(G, q, n) ==
    Eager([r \in 1..Pow2(n) |-> Eager([c \in 1..Pow2(n) |-> FactorProduct(G, q, n, r - 1, c - 1, 0)])])

C19_SingleQubitConjugation ==
    (kernel.op = "applyGate" /\ kernel.done /\ Len(kernel.args[2].qubits) = 1) =>
        LET st == kernel.args[1]
            g == kernel.args[2]
            n == kernel.args[3]
            G == IF g.hasMatrix THEN g.matrix ELSE GATES[g.name]
            F == FullOperator(G, g.qubits[1], n)
        IN  kernel.result = Returned(matrixMultiply(matrixMultiply(F, st), transpose(F)))

C19_Witness ==
    /\ kernel.op = "applyGate"
    /\ kernel.done
    /\ kernel.args[3] = 2
    /\ kernel.args[1] = PatternMatrix(4, 4, -1)
    /\ kernel.args[2] = Gate("H", <<1>>)
    /\ kernel.result.value # kernel.args[1]

(***************************************************************************)
(* C20.  For every n >= 1 and every list of catalog gates with 1 or 2      *)
(* qubit indices in [0, n), the composite state after each applyGate step  *)
(* of simulateCircuit is a 2^n x 2^n matrix of numbers, none of them NaN,  *)
(* also for n = 3 circuits with two-qubit gates such as the GHZ example.   *)
(* The code does not: see C20_StateKeepsShape's trace.                     *)
(***************************************************************************)
C20_StateKeepsShape ==
    (pc \in {"gates", "reduce", "returned", "thrown"} /\ WellShaped(circuit)) =>
        /\ Len(state) = Pow2(circuit.numQubits)
        /\ \A i \in DOMAIN state :
               /\ Len(state[i]) = Pow2(circuit.numQubits)
               /\ \A j \in DOMAIN state[i] : ~IsNaN(state[i][j])

(***************************************************************************)
(* C21.  For a gate with two qubit indices (a, b) and a 4x4 matrix G,      *)
(* applyGate returns G * state * transpose(G), taken against the whole     *)
(* composite state; the result depends neither on a, b nor on numQubits:   *)
(* on a 2-qubit state the gate on (0,1) and on (1,0) give the same state.  *)
(***************************************************************************)
RECURSIVE SumUpTo(_, _)
\* f[0] + ... + f[k]
SumUpTo(f, k) == IF k < 0 THEN Zero ELSE NumAdd(SumUpTo(f, k - 1), f[k])

\* entry (i, j) of G * st * transpose(G): the sum over k, l of
\* G[i][k] * st[k][l] * G[j][l]
ConjugatedEntry(G, st, i, j) ==
    SumUpTo([k \in 0..(Len(st) - 1) |->
                SumUpTo([l \in 0..(Len(st) - 1) |->
                            NumMul(NumMul(G[i + 1][k + 1], st[k + 1][l + 1]), G[j + 1][l + 1])],
                        Len(st) - 1)],
            Len(st) - 1)

Conjugated(G, st) ==
    Eager([i \in 1..Len(G) |-> Eager([j \in 1..Len(G) |-> ConjugatedEntry(G, st, i - 1, j - 1)])])

C21_TwoQubitConjugation ==
    (kernel.op = "applyGate" /\ kernel.done /\ Len(kernel.args[2].qubits) = 2) =>
        LET st == kernel.args[1]
            g == kernel.args[2]
            n == kernel.args[3]
            G == IF g.hasMatrix THEN g.matrix ELSE GATES[g.name]
            reversed == [g EXCEPT !.qubits = <<g.qubits[2], g.qubits[1]>>]
        IN  /\ kernel.result = Returned(Conjugated(G, st))
            /\ kernel.result.value = applyGate(st, reversed, n)
            /\ kernel.result.value = applyGate(st, g, n + 1)

C21_Witness ==
    /\ kernel.op = "applyGate"
    /\ kernel.done
    /\ kernel.args[1] = PatternMatrix(4, 4, -1)
    /\ kernel.args[2] = GateM("FOO", GATES.SWAP, <<1, 0>>)
    /\ kernel.result.value # kernel.args[1]

(***************************************************************************)
(* simulateCircuit of both revisions as functions of the circuit: the      *)
(* gates folded in order, then one partialTrace per qubit; an exception    *)
(* anywhere ends the call.                                                 *)
(***************************************************************************)
\* the composite state after a run of gates, or the fact that one of them raised
Went(st) == [ok |-> TRUE, st |-> st]

Raised == [ok |-> FALSE, st |-> <<>>]

RECURSIVE RunGates(_, _)
\* the first k gates of c under the later revision
RunGates(c, k) ==
    IF k = 0 THEN Went(createInitialState(c.numQubits))
    ELSE LET before == RunGates(c, k - 1)
         IN  IF ~before.ok THEN Raised
             ELSE IF applyGateThrows(before.st, c.gates[k], c.numQubits) THEN Raised
             ELSE Went(applyGate(before.st, c.gates[k], c.numQubits))

RECURSIVE RunGatesEarlier(_, _)
\* the first k gates of c under the earlier revision
RunGatesEarlier(c, k) ==
    IF k = 0 THEN Went(createInitialState(c.numQubits))
    ELSE LET before == RunGatesEarlier(c, k - 1)
         IN  IF ~before.ok THEN Raised
             ELSE IF applyGateEarlierThrows(before.st, c.gates[k], c.numQubits) THEN Raised
             ELSE Went(applyGateEarlier(before.st, c.gates[k], c.numQubits))

\* the second loop of simulateCircuit on the final state (the same in both
\* revisions)
ReduceAll(final, numQubits) ==
    IF \E q \in 0..(numQubits - 1) : partialTraceThrows(final, q, numQubits) THEN Thrown
    ELSE Returned([q \in 1..numQubits |-> partialTrace(final, q - 1, numQubits)])

simulateCircuit(c) ==
    IF createInitialStateThrows(c.numQubits) THEN Thrown
    ELSE LET ran == RunGates(c, Len(c.gates))
         IN  IF ~ran.ok THEN Thrown ELSE ReduceAll(ran.st, c.numQubits)

simulateCircuitEarlier(c) ==
    IF createInitialStateThrows(c.numQubits) THEN Thrown
    ELSE LET ran == RunGatesEarlier(c, Len(c.gates))
         IN  IF ~ran.ok THEN Thrown ELSE ReduceAll(ran.st, c.numQubits)

\* the number of gates of the circuits handed to both revisions
MaxSimGates == 2

\* gates that carry their matrix: X and H on every qubit, CNOT on every pair,
\* and gates with no or three qubit indices
CarriedGates(n) ==
    {GateM(nm, GATES[nm], <<q>>) : nm \in {"X", "H"}, q \in 0..(n - 1)}
    \cup {GateM("CNOT", GATES.CNOT, pr) : pr \in QubitPairs(n)}
    \cup {GateM("X", GATES.X, <<>>), GateM("CNOT", GATES.CNOT, <<0, n - 1, 0>>)}

\* with them, a gate known by its name only, on three qubit indices,
\* and a gate whose matrix is the empty array
SimGates(n) == CarriedGates(n) \cup {Gate("H", <<0, 0, 0>>), GateM("X", <<>>, <<0>>)}

SimCircuits ==
    UNION {{Circuit(n, gs) : gs \in SeqsUpTo(SimGates(n), MaxSimGates)} : n \in 1..2}

InitSimulate ==
    /\ circuit = Circuit(1, <<>>)
    /\ pc = "idle"
    /\ state = <<>>
    /\ gi = 0
    /\ qi = 0
    /\ reducedStates = <<>>
    /\ run = 1
    /\ seen = {}
    /\ builder = NoBuilder
    /\ workspace = NoWorkspace
    /\ \E c \in SimCircuits :
           \/ kernel = KernelCall("simulateCircuit", <<c>>)
           \/ kernel = KernelCall("simulateCircuitEarlier", <<c>>)

CallSimulateCircuit ==
    /\ kernel.op = "simulateCircuit"
    /\ ~kernel.done
    /\ kernel' = [kernel EXCEPT !.done = TRUE, !.result = simulateCircuit(kernel.args[1])]
    /\ UNCHANGED <<circuit, pc, state, gi, qi, reducedStates, run, seen, builder, workspace>>

CallSimulateCircuitEarlier ==
    /\ kernel.op = "simulateCircuitEarlier"
    /\ ~kernel.done
    /\ kernel' = [kernel EXCEPT !.done = TRUE, !.result = simulateCircuitEarlier(kernel.args[1])]
    /\ UNCHANGED <<circuit, pc, state, gi, qi, reducedStates, run, seen, builder, workspace>>

NextSimulate == CallSimulateCircuit \/ CallSimulateCircuitEarlier

SpecSimulate == InitSimulate /\ [][NextSimulate]_vars

\* the step-wise simulateCircuit ends as the function says
StepwiseAgrees == Finished => Outcome = simulateCircuit(circuit)

(***************************************************************************)
(* C22.  A gate whose qubit index list has length 0 or >= 3 (its matrix    *)
(* known) is returned by applyGate with the input state unchanged, and     *)
(* simulateCircuit gives what it gives for the circuit without that gate.  *)
(***************************************************************************)
OddArity(g) == Len(g.qubits) \notin {1, 2}

WithoutOddArity(c) == Circuit(c.numQubits, SelectSeq(c.gates, LAMBDA g : ~OddArity(g)))

C22_OddArityIsNoOp ==
    (kernel.op \in {"simulateCircuit", "simulateCircuitEarlier"} /\ kernel.done) =>
        LET c == kernel.args[1]
        IN  /\ kernel.result = IF kernel.op = "simulateCircuit"
                               THEN simulateCircuit(WithoutOddArity(c))
                               ELSE simulateCircuitEarlier(WithoutOddArity(c))
            /\ \A k \in DOMAIN c.gates :
                   OddArity(c.gates[k]) =>
                       IF kernel.op = "simulateCircuit"
                       THEN RunGates(c, k - 1).ok =>
                                RunGates(c, k) = RunGates(c, k - 1)
                       ELSE RunGatesEarlier(c, k - 1).ok =>
                                RunGatesEarlier(c, k) = RunGatesEarlier(c, k - 1)

C22_Witness ==
    /\ kernel.op = "simulateCircuit"
    /\ kernel.done
    /\ kernel.args[1] = Circuit(2, <<GateM("X", GATES.X, <<0>>),
                                     GateM("CNOT", GATES.CNOT, <<0, 1, 0>>)>>)
    /\ kernel.result = simulateCircuit(Circuit(2, <<GateM("X", GATES.X, <<0>>)>>))
    /\ kernel.result.status = "returned"

(***************************************************************************)
(* C26.  The two revisions agree: for a circuit on 1 or 2 qubits whose     *)
(* gates all carry an explicit matrix and whose two-qubit gates are all    *)
(* named CNOT with the CNOT matrix, simulateCircuit of the earlier and of  *)
(* the later revision return identical result lists.                       *)
(***************************************************************************)
InBothRevisions(c) ==
    /\ c.numQubits \in {1, 2}
    /\ \A k \in DOMAIN c.gates :
           /\ c.gates[k].hasMatrix
           /\ Len(c.gates[k].qubits) = 2 =>
                  (c.gates[k].name = "CNOT" /\ c.gates[k].matrix = GATES.CNOT)

C26_RevisionsAgree ==
    (kernel.op \in {"simulateCircuit", "simulateCircuitEarlier"} /\ kernel.done
        /\ InBothRevisions(kernel.args[1])) =>
        /\ kernel.result = simulateCircuit(kernel.args[1])
        /\ kernel.result = simulateCircuitEarlier(kernel.args[1])

\* the same for circuits whose matrices have at least one row
C26_AgreeOnNonEmptyMatrices ==
    (kernel.op \in {"simulateCircuit", "simulateCircuitEarlier"} /\ kernel.done
        /\ InBothRevisions(kernel.args[1])
        /\ \A k \in DOMAIN kernel.args[1].gates : kernel.args[1].gates[k].matrix # <<>>) =>
        /\ kernel.result = simulateCircuit(kernel.args[1])
        /\ kernel.result = simulateCircuitEarlier(kernel.args[1])

(***************************************************************************)
(* C23.  For valid inputs (n >= 1, 0 <= qubitToKeep < n, a 2^n x 2^n       *)
(* state) every row and column index partialTrace computes is below 2^n,   *)
(* so the out-of-bounds guard never skips a term.                          *)
(***************************************************************************)
ValidTraceCall ==
    /\ kernel.op = "partialTrace"
    /\ kernel.done
    /\ kernel.args[3] >= 1
    /\ kernel.args[2] \in 0..(kernel.args[3] - 1)
    /\ IsSquare(kernel.args[1], Pow2(kernel.args[3]))

C23_GuardNeverSkips ==
    ValidTraceCall =>
        LET totalDim == Pow2(kernel.args[3])
            stride == Stride(kernel.args[2], kernel.args[3])
        IN  \A i \in 0..1, j \in 0..1, k \in 0..((totalDim \div 2) - 1) :
                InBounds(TraceIndex(i, k, stride), TraceIndex(j, k, stride), totalDim)

\* the guard skips nothing when the last qubit is kept
C23_LastQubitNeverSkips ==
    (ValidTraceCall /\ kernel.args[2] = kernel.args[3] - 1) =>
        LET totalDim == Pow2(kernel.args[3])
        IN  \A i \in 0..1, j \in 0..1, k \in 0..((totalDim \div 2) - 1) :
                InBounds(TraceIndex(i, k, 1), TraceIndex(j, k, 1), totalDim)

(***************************************************************************)
(* C24.  For n in 1..3, every qubitToKeep in [0, n) and every 2^n x 2^n    *)
(* state, the matrix partialTrace returns is the reference partial trace   *)
(* over the other qubits (qubit 0 the most significant bit): entry (i, j)  *)
(* sums, over the values of the other n-1 qubits, the state entry whose    *)
(* row has the kept qubit = i and whose column has it = j; so the trace of *)
(* the reduced matrix is the trace of the full state.                      *)
(***************************************************************************)
\* the basis index whose kept qubit has value v and whose other qubits spell rest
WithKeptBit(rest, v, qubitToKeep, numQubits) ==
    LET below == Pow2(numQubits - qubitToKeep - 1)
    IN  (rest \div below) * (2 * below) + v * below + (rest % below)

ReferencePartialTrace(fullState, qubitToKeep, numQubits) ==
    LET others == Pow2(numQubits - 1) - 1
    IN  Eager([i \in 1..2 |-> Eager([j \in 1..2 |->
            SumUpTo([rest \in 0..others |->
                        Elem(fullState,
                             WithKeptBit(rest, i - 1, qubitToKeep, numQubits),
                             WithKeptBit(rest, j - 1, qubitToKeep, numQubits))],
                    others)])])

C24_ReferencePartialTrace ==
    ValidTraceCall =>
        /\ kernel.result.status = "returned"
        /\ kernel.result.value.matrix =
               ReferencePartialTrace(kernel.args[1], kernel.args[2], kernel.args[3])
        /\ trace(kernel.result.value.matrix) = trace(kernel.args[1])

\* the same when the last qubit is kept
C24_LastQubitIsReference ==
    (ValidTraceCall /\ kernel.args[2] = kernel.args[3] - 1) =>
        /\ kernel.result.status = "returned"
        /\ kernel.result.value.matrix =
               ReferencePartialTrace(kernel.args[1], kernel.args[2], kernel.args[3])
        /\ trace(kernel.result.value.matrix) = trace(kernel.args[1])

(***************************************************************************)
(* applyGate called with every catalog gate, on the composite states that  *)
(* a sequence of catalog gates reaches: the initial state and the states   *)
(* one gate after it.                                                      *)
(***************************************************************************)
\* the catalog gates addressed by name: single-qubit ones on every qubit,
\* two-qubit ones on every pair when there are two qubits
CatalogGates(n, single, double) ==
    {Gate(nm, <<q>>) : nm \in single, q \in 0..(n - 1)}
    \cup {Gate(nm, pr) : nm \in double, pr \in {p2 \in QubitPairs(n) : n = 2}}

\* the catalog names whose matrices hold only 0, 1, -1 and 1/sqrt(2)
ExactSingle == {"I", "X", "Y", "Z", "H", "S"}

\* createInitialState(n) and applyGate(createInitialState(n), g, n)
GateSetStates(n) ==
    {createInitialState(n)}
    \cup {applyGate(createInitialState(n), g, n) :
              g \in CatalogGates(n, ExactSingle, Range(TWO_QUBIT_GATES))}

InitGateSet ==
    /\ circuit = Circuit(1, <<>>)
    /\ pc = "idle"
    /\ state = <<>>
    /\ gi = 0
    /\ qi = 0
    /\ reducedStates = <<>>
    /\ run = 1
    /\ seen = {}
    /\ builder = NoBuilder
    /\ workspace = NoWorkspace
    /\ \E n \in KernelQubits :
           \E st \in GateSetStates(n),
              g \in CatalogGates(n, Range(SINGLE_QUBIT_GATES), Range(TWO_QUBIT_GATES)) :
               kernel = KernelCall("applyGate", <<st, g, n>>)

NextGateSet == CallApplyGate

SpecGateSet == InitGateSet /\ [][NextGateSet]_vars

\* the loops of partialTrace that fill reducedMatrix
ReducedMatrixOf(fullState, qubitToKeep, numQubits) ==
    Eager([i \in 1..2 |-> Eager([j \in 1..2 |->
        ReducedSumFrom(fullState, i - 1, j - 1, 0, Stride(qubitToKeep, numQubits),
                       Pow2(numQubits), Zero)])])

Identity(dim) == Eager([i \in 1..dim |-> Eager([j \in 1..dim |-> IF i = j THEN One ELSE Zero])])

(***************************************************************************)
(* C25.  The composite state stays a trace-1 density matrix: for n in      *)
(* {1, 2} and every sequence of catalog gates (I, X, Y, Z, H, S, T, RX,    *)
(* RY, RZ on any qubit; CNOT, CZ, SWAP when n = 2) the trace of the state  *)
(* after every gate application is 1, every catalog gate G satisfying      *)
(* G * transpose(G) = identity.                                            *)
(***************************************************************************)
C25_TraceStaysOne ==
    (kernel.op = "applyGate" /\ kernel.done) =>
        LET G == GATES[kernel.args[2].name]
        IN  /\ trace(kernel.result.value) = One
            /\ matrixMultiply(G, transpose(G)) = Identity(Len(G))

\* the same for the gates other than T, RX, RY and RZ
C25_ExactGatesKeepTrace ==
    (kernel.op = "applyGate" /\ kernel.done
        /\ kernel.args[2].name \in ExactSingle \cup Range(TWO_QUBIT_GATES)) =>
        LET G == GATES[kernel.args[2].name]
        IN  /\ trace(kernel.result.value) = One
            /\ matrixMultiply(G, transpose(G)) = Identity(Len(G))

(***************************************************************************)
(* C27.  The composite state is symmetric at every step                    *)
(* (state[r][c] = state[c][r]) for any sequence of gates; so every reduced *)
(* matrix is symmetric and the y component of every Bloch vector is 0,     *)
(* also for circuits with Y, S, T or rotation gates.                       *)
(***************************************************************************)
IsSymmetric(M) ==
    /\ \A r \in DOMAIN M : Len(M[r]) = Len(M)
    /\ \A r \in DOMAIN M, c \in DOMAIN M : M[r][c] = M[c][r]

C27_SymmetricAlongTheRun ==
    /\ pc \in {"gates", "reduce", "returned"} => IsSymmetric(state)
    /\ \A q \in DOMAIN reducedStates :
           /\ IsSymmetric(reducedStates[q].matrix)
           /\ reducedStates[q].blochVector.y = Zero

(***************************************************************************)
(* C29.  After any sequence of drops, removals and clears in the           *)
(* CircuitBuilder, the gate list of the circuit last passed to             *)
(* onCircuitChange is the builder's own circuitGates mapped to             *)
(* {name, qubits}, same gates in the same order: a drop appends at the     *)
(* end, removeGate deletes exactly the gate with the given id and keeps    *)
(* the order of the rest, clearCircuit leaves an empty list.               *)
(***************************************************************************)
NameAndQubits(circuitGates) ==
    [k \in DOMAIN circuitGates |->
        [name |-> circuitGates[k].gate.name, qubits |-> circuitGates[k].qubits]]

\* s with its k-th element deleted
Without(seq, k) == SubSeq(seq, 1, k - 1) \o SubSeq(seq, k + 1, Len(seq))

C29_EmittedIsOwnList ==
    [][builder.mounted =>
          /\ builder'.emitted # <<>> =>
                 builder'.emitted[1].gates = NameAndQubits(builder'.circuitGates)
          /\ builder'.emitted = <<>> => builder'.circuitGates = <<>>
          /\ builder'.emitted # <<>> => workspace'.currentCircuit = builder'.emitted
          /\ builder'.circuitGates # builder.circuitGates =>
                 \/ /\ Len(builder'.circuitGates) = Len(builder.circuitGates) + 1
                    /\ SubSeq(builder'.circuitGates, 1, Len(builder.circuitGates))
                           = builder.circuitGates
                    /\ builder'.circuitGates[Len(builder'.circuitGates)].gate
                           = builder.draggedGate
                 \/ \E k \in DOMAIN builder.circuitGates :
                        /\ builder'.circuitGates = Without(builder.circuitGates, k)
                        /\ \A m \in DOMAIN builder'.circuitGates :
                               builder'.circuitGates[m].id # builder.circuitGates[k].id
                 \/ builder'.circuitGates = <<>>]_vars

\* two gates dropped, the first one removed: the second is what is left, in
\* the builder and in the circuit handed over
C29_Witness ==
    /\ builder.mounted
    /\ builder.drops = 2
    /\ Len(builder.circuitGates) = 1
    /\ builder.circuitGates[1].id = 2
    /\ builder.circuitGates[1].gate.name = "SWAP"
    /\ builder.emitted # <<>>
    /\ builder.emitted[1].gates = <<[name |-> "SWAP", qubits |-> <<0, 1>>]>>

(***************************************************************************)
(* The Workspace page: the builder, the example list, the Circuit JSON     *)
(* field and the Compute button.  handleSimulate runs from its first line  *)
(* to its last without yielding; it is taken in two steps, the call of     *)
(* setIsSimulating(true) and the rest, and nothing else happens between    *)
(* them.                                                                   *)
(***************************************************************************)
\* the examples picked from the list
SelectedExamples == {"Bell", "GHZ"}

\* the object simulateCircuit receives from the builder or from JSON.parse:
\* gates with a name and a qubit list, no matrix
AsQuantumCircuit(c) ==
    Circuit(c.numQubits, [k \in DOMAIN c.gates |-> Gate(c.gates[k].name, c.gates[k].qubits)])

\* the text handleExampleSelect writes: name and qubits of every gate
ExampleText(example) ==
    JsonText(Circuit(EXAMPLE_CIRCUITS[example].numQubits,
                     [k \in DOMAIN EXAMPLE_CIRCUITS[example].gates |->
                         [name |-> EXAMPLE_CIRCUITS[example].gates[k].name,
                          qubits |-> EXAMPLE_CIRCUITS[example].gates[k].qubits]]))

\* the texts typed into the Circuit JSON field
TypedTexts == {GarbageText, JsonText(Circuit(1, <<[name |-> "H", qubits |-> <<0>>]>>))}

handleExampleSelect ==
    /\ workspace.mounted
    /\ ~workspace.isSimulating
    /\ \E example \in SelectedExamples :
           workspace' = [workspace EXCEPT !.selectedExample = example,
                                          !.circuitCode = ExampleText(example)]
    /\ UNCHANGED <<circuit, pc, state, gi, qi, reducedStates, run, seen, kernel, builder>>

\* onChange of the Circuit JSON field
TypeCircuitCode ==
    /\ workspace.mounted
    /\ ~workspace.isSimulating
    /\ \E text \in TypedTexts : workspace' = [workspace EXCEPT !.circuitCode = text]
    /\ UNCHANGED <<circuit, pc, state, gi, qi, reducedStates, run, seen, kernel, builder>>

\* the Compute button is disabled while simulating and when there is neither
\* a text nor a builder circuit
handleSimulateBegin ==
    /\ workspace.mounted
    /\ ~workspace.isSimulating
    /\ workspace.circuitCode.kind # "empty" \/ workspace.currentCircuit # <<>>
    /\ workspace' = [workspace EXCEPT !.isSimulating = TRUE]
    /\ UNCHANGED <<circuit, pc, state, gi, qi, reducedStates, run, seen, kernel, builder>>

\* the circuit handleSimulate takes: the builder's, else the selected
\* example's, else JSON.parse(circuitCode), which may raise
ChosenCircuit(ws) ==
    IF ws.currentCircuit # <<>> THEN Returned(AsQuantumCircuit(ws.currentCircuit[1]))
    ELSE IF ws.selectedExample # "" THEN Returned(EXAMPLE_CIRCUITS[ws.selectedExample])
    ELSE IF ws.circuitCode.kind = "json" THEN Returned(AsQuantumCircuit(ws.circuitCode.circuit[1]))
    ELSE Thrown

\* the try block: what simulateCircuit returns, or the exception
SimulationOf(ws) ==
    IF ChosenCircuit(ws) = Thrown THEN Thrown ELSE simulateCircuit(ChosenCircuit(ws).value)

\* mutant: the results are cleared when the simulation raises
AfterSimulationClearing(ws, out) ==
    IF out.status = "returned"
    THEN [ws EXCEPT !.reducedStates = out.value, !.toast = "complete",
                    !.isSimulating = FALSE]
    ELSE [ws EXCEPT !.reducedStates = <<>>, !.toast = "error",
                    !.isSimulating = FALSE]

\* setReducedStates(states) and the toast, or the catch block; then
\* setIsSimulating(false)
AfterSimulation(ws, out) ==
    IF out.status = "returned"
    THEN [ws EXCEPT !.reducedStates = out.value, !.toast = "complete",
                    !.isSimulating = FALSE]
    ELSE [ws EXCEPT !.toast = "error",
                    !.isSimulating = FALSE]

handleSimulateRun ==
    /\ workspace.mounted
    /\ workspace.isSimulating
    /\ workspace' = AfterSimulation(workspace, SimulationOf(workspace))
    /\ UNCHANGED <<circuit, pc, state, gi, qi, reducedStates, run, seen, kernel, builder>>

\* an event of the builder, between two runs: a drag, a drop, a removal, a
\* clear, the - button
BuilderEvent ==
    /\ ~workspace.isSimulating
    /\ \/ handleDragStart
       \/ handleDrop
       \/ removeGate
       \/ clearCircuit
       \/ DecrementQubits

NextWorkspace ==
    \/ BuilderEvent
    \/ handleExampleSelect
    \/ TypeCircuitCode
    \/ handleSimulateBegin
    \/ handleSimulateRun

SpecWorkspace == InitBuilder /\ [][NextWorkspace]_vars

(***************************************************************************)
(* C28.  Whenever handleSimulate simulates the builder's circuit           *)
(* (currentCircuit is set), that circuit's numQubits equals the numQubits  *)
(* state of Workspace shown in the builder, after any interleaving of      *)
(* qubit-count changes, drops, removals and clears.                        *)
(***************************************************************************)
C28_SimulatedCountIsShownCount ==
    (workspace.mounted /\ workspace.isSimulating /\ workspace.currentCircuit # <<>>) =>
        ChosenCircuit(workspace).value.numQubits = builder.numQubits

\* the circuit simulated is the one last handed over by the builder
C28_SimulatesLastEmitted ==
    (workspace.mounted /\ workspace.isSimulating /\ workspace.currentCircuit # <<>>) =>
        /\ workspace.currentCircuit = builder.emitted
        /\ ChosenCircuit(workspace).value = AsQuantumCircuit(builder.emitted[1])

(***************************************************************************)
(* C30.  Every handleSimulate run ends with isSimulating = false, whether  *)
(* the simulation succeeds or throws (unparsable JSON, or an exception in  *)
(* simulateCircuit); when it throws, reducedStates keeps its value (the    *)
(* results of an earlier circuit stay displayed and exportable); when it   *)
(* succeeds, reducedStates is replaced by the full new result list.        *)
(***************************************************************************)
C30_SimulateEndsClean ==
    [][(workspace.mounted /\ workspace.isSimulating) =>
          /\ ~workspace'.isSimulating
          /\ IF SimulationOf(workspace).status = "thrown"
             THEN /\ workspace'.toast = "error"
                  /\ workspace'.reducedStates = workspace.reducedStates
             ELSE /\ workspace'.toast = "complete"
                  /\ workspace'.reducedStates = SimulationOf(workspace).value
                  /\ Len(workspace'.reducedStates) = ChosenCircuit(workspace).value.numQubits]_vars

\* a run that raised, with the results of an earlier run still there
C30_Witness ==
    /\ workspace.mounted
    /\ ~workspace.isSimulating
    /\ workspace.toast = "error"
    /\ workspace.reducedStates # <<>>

\* a run that raised inside simulateCircuit: the GHZ example
C30_RaisedInsideSimulateCircuit ==
    /\ workspace.mounted
    /\ ~workspace.isSimulating
    /\ workspace.toast = "error"
    /\ workspace.currentCircuit = <<>>
    /\ workspace.selectedExample = "GHZ"
    /\ simulateCircuit(EXAMPLE_CIRCUITS.GHZ) = Thrown

====
